---- MODULE Spec2Model ----
(***************************************************************************)
(* CONDUSEF SOFIPO data monitor (check_condusef.py).                       *)
(*                                                                         *)
(* The model follows main(): the cursor record kept in STATE_FILE, the     *)
(* forward scan over successive monthly periods, the notification step and *)
(* the write of the cursor record.  The regulator's site, the wall clock,  *)
(* the mail transport and the file system are the environment.             *)
(*                                                                         *)
(* A period is a pair <<year, month>>.                                     *)
(***************************************************************************)
EXTENDS Integers, Sequences, FiniteSets, TLC

\* Number of periods after the first one that the model's calendar covers.
Horizon == 3

\* load_state's default cursor: {"last_year": 2025, "last_month": 12}.
DefaultYear == 2025
DefaultMonth == 12

VARIABLES
    file,         \* contents of STATE_FILE
    source,       \* what the regulator's site answers for each period
    clock,        \* the wall clock's calendar period (datetime.now())
    pc,           \* position of the current run of main()
    last,         \* (last_y, last_m)
    current,      \* (current_y, current_m)
    check,        \* (check_y, check_m)
    new_periods,  \* keys of new_periods, in insertion order
    mail,         \* what send_email did in this run
    outcome,      \* how the run ended
    loaded,       \* history: the cursor load_state returned to this run
    fetched,      \* history: the periods fetch_month was called with in this run
    committed,    \* history: the last complete cursor record STATE_FILE held
    writes,       \* history: times this run opened STATE_FILE for writing
    prev,         \* history: how the previous run ended and what it found
    envChanged,   \* history: the site or the clock changed since the previous run
    reads,        \* history: times this run called load_state
    sends,        \* history: times this run called send_email
    reported,     \* history: the periods handed to send_email, over all runs
    allSaved,     \* history: every run that called send_email stored its cursor
    cursor0       \* history: the cursor STATE_FILE stood for at the beginning
                  \* (reported and cursor0 are kept only while allSaved holds)

vars == <<file, source, clock, pc, last, current, check, new_periods, mail,
          outcome, loaded, fetched, committed, writes, prev, envChanged,
          reads, sends, reported, allSaved, cursor0>>

callVars == <<reads, sends>>
logVars == <<reported, allSaved, cursor0>>

\* State of the function-level specifications further down; main() leaves it
\* alone.
VARIABLES
    m_prev,       \* next_month: the period it was last applied to
    m_cur         \* next_month: the period reached

monthVars == <<m_prev, m_cur>>

VARIABLES
    f_pc,             \* position of a call of fetch_month
    f_ret,            \* what fetch_month returned
    f_path,           \* history: the way the call took through fetch_month
    f_fed,            \* number of markup pieces parser.feed has handled
    in_td,            \* CONDUSEFParser.in_td
    current_row,      \* CONDUSEFParser.current_row
    rows,             \* CONDUSEFParser.rows
    current_cell,     \* CONDUSEFParser.current_cell
    has_current_cell, \* the attribute current_cell exists
    results,          \* fetch_month: results
    g_open,           \* history: a <tr> was seen and no </tr> since
    g_cells           \* history: the cells closed since the last <tr> or </tr>

parserVars == <<in_td, current_row, rows, current_cell, has_current_cell>>
fetchVars == <<f_pc, f_ret, f_path, f_fed, parserVars, results, g_open, g_cells>>

auxVars == <<monthVars, fetchVars>>
allVars == <<vars, auxVars>>

envVars == <<source, clock>>
scanVars == <<last, current, check, new_periods, loaded, fetched>>

-----------------------------------------------------------------------------
(* Periods *)

\* Mutant: December does not wrap into the next year.
next_month_NoWrap(year, month) == <<year, month + 1>>

\* Mutant: the successor is the period itself.
next_month_Same(year, month) == <<year, month>>

\* Mutant: December wraps to month 0 of the next year.
next_month_WrapToZero(year, month) ==
    IF month = 12 THEN <<year + 1, 0>> ELSE <<year, month + 1>>

next_month(year, month) ==
    IF month = 12 THEN <<year + 1, 1>> ELSE <<year, month + 1>>

\* The calendar successor, used to lay out the model's calendar and to state
\* the properties; independent of the program's next_month.
Succ(p) == IF p[2] = 12 THEN <<p[1] + 1, 1>> ELSE <<p[1], p[2] + 1>>

\* Python's tuple comparison (check_y, check_m) <= (current_y, current_m).
\* Mutant: only the years are compared.
PeriodLeq_YearOnly(a, b) == a[1] <= b[1]

PeriodLeq(a, b) == a[1] < b[1] \/ (a[1] = b[1] /\ a[2] <= b[2])

\* Lexicographic order on periods, for the properties.
Leq(a, b) == a[1] < b[1] \/ (a[1] = b[1] /\ a[2] <= b[2])
Lt(a, b) == Leq(a, b) /\ a # b

DefaultCursor == <<DefaultYear, DefaultMonth>>

RECURSIVE NthPeriod(_)
NthPeriod(k) == IF k = 0 THEN DefaultCursor ELSE Succ(NthPeriod(k - 1))

Periods == {NthPeriod(k) : k \in 0..Horizon}

NoPeriod == <<0, 0>>

-----------------------------------------------------------------------------
(* STATE_FILE *)

Absent == [kind |-> "absent", last_year |-> 0, last_month |-> 0]
\* open(STATE_FILE, "w") has truncated the file and nothing is written yet.
Truncated == [kind |-> "empty", last_year |-> 0, last_month |-> 0]
\* A prefix of the JSON text: not a JSON document.
Partial == [kind |-> "partial", last_year |-> 0, last_month |-> 0]
\* json.dump({"last_year": year, "last_month": month}, f, indent=2)
JsonRecord(year, month) == [kind |-> "json", last_year |-> year, last_month |-> month]

IsComplete(f) == f.kind = "json"

\* load_state's result on a file it can read.
load_state(f) ==
    IF f.kind = "absent"
    THEN [last_year |-> DefaultYear, last_month |-> DefaultMonth]
    ELSE [last_year |-> f.last_year, last_month |-> f.last_month]

\* json.load raises on an empty or cut-off document.
LoadRaises(f) == f.kind \in {"empty", "partial"}

\* The cursor a complete or absent file stands for.
StoredCursor(f) == <<load_state(f).last_year, load_state(f).last_month>>

-----------------------------------------------------------------------------
(* The site *)

\* "data":   a page with the marker and at least one tracked entity
\* "nodata": a page without the marker, or with no tracked entity
\* "error":  timeout, connection failure or non-success status
Responses == {"data", "nodata", "error"}

\* Mutant: a failed request is taken for data.
fetch_month_ErrorIsData(year, month) ==
    IF <<year, month>> \in DOMAIN source
       /\ source[<<year, month>>] \in {"data", "error"}
    THEN "dict" ELSE "None"

\* fetch_month's result: a non-empty dict, or None.
fetch_month(year, month) ==
    IF <<year, month>> \in DOMAIN source /\ source[<<year, month>>] = "data"
    THEN "dict" ELSE "None"

-----------------------------------------------------------------------------
(* Exit status *)

\* sys.exit(main()): the returned value; an uncaught exception ends the
\* interpreter with status 1; a killed process has the signal's status.
\* "ret0", "ret1":  main() returned 0 or 1
\* "load_raised":   load_state raised out of main()
\* "save_raised":   save_state raised out of main()
\* "killed":        the process was killed from outside
ExitStatus(o) ==
    CASE o = "ret0" -> 0
      [] o = "ret1" -> 1
      [] o \in {"load_raised", "save_raised"} -> 1
      [] o = "killed" -> 137
      [] OTHER -> -1

Returned(o) == o \in {"ret0", "ret1"}

NoRun == [outcome |-> "none", new_periods |-> <<>>]

-----------------------------------------------------------------------------
\* The function-level specifications are not in use.
MonthParked == m_prev = NoPeriod /\ m_cur = NoPeriod

\* A dict with no key.
EmptyDict == [k \in {} |-> 0]

FetchParked ==
    /\ f_pc = "off"
    /\ f_ret = "none"
    /\ f_path = "none"
    /\ f_fed = 0
    /\ in_td = FALSE
    /\ current_row = <<>>
    /\ rows = <<>>
    /\ current_cell = <<>>
    /\ has_current_cell = FALSE
    /\ results = EmptyDict
    /\ g_open = FALSE
    /\ g_cells = <<>>

AuxParked == MonthParked /\ FetchParked

Init ==
    /\ file \in {Absent} \cup {JsonRecord(p[1], p[2]) : p \in Periods}
    /\ source \in [Periods -> Responses]
    /\ clock \in Periods
    /\ pc = "idle"
    /\ last = NoPeriod
    /\ current = NoPeriod
    /\ check = NoPeriod
    /\ new_periods = <<>>
    /\ mail = "none"
    /\ outcome = "none"
    /\ loaded = NoPeriod
    /\ fetched = <<>>
    /\ committed = StoredCursor(file)
    /\ writes = 0
    /\ prev = NoRun
    /\ envChanged = FALSE
    /\ reads = 0
    /\ sends = 0
    /\ reported = <<>>
    /\ allSaved = TRUE
    /\ cursor0 = StoredCursor(file)
    /\ AuxParked

-----------------------------------------------------------------------------
(* The environment, between runs *)

\* The calendar moves on to the next period.
Tick ==
    /\ pc = "idle"
    /\ Succ(clock) \in Periods
    /\ clock' = Succ(clock)
    /\ envChanged' = TRUE
    /\ UNCHANGED <<file, source, pc, scanVars, mail, outcome, committed, writes, prev>>
    /\ UNCHANGED <<callVars, logVars>>
    /\ UNCHANGED auxVars

\* The site's answer for one period changes.
Publish ==
    /\ pc = "idle"
    /\ \E p \in Periods, r \in Responses :
          /\ source[p] # r
          /\ source' = [source EXCEPT ![p] = r]
    /\ envChanged' = TRUE
    /\ UNCHANGED <<file, clock, pc, scanVars, mail, outcome, committed, writes, prev>>
    /\ UNCHANGED <<callVars, logVars>>
    /\ UNCHANGED auxVars

-----------------------------------------------------------------------------
(* main() *)

\* Mutant: the scan starts at the cursor itself, not at its successor.
StartRun_AtCursor ==
    /\ pc = "idle"
    /\ ~LoadRaises(file)
    /\ loaded' = StoredCursor(file)
    /\ last' = <<load_state(file).last_year, load_state(file).last_month>>
    /\ current' = clock
    /\ check' = last'
    /\ new_periods' = <<>>
    /\ pc' = "scan"
    /\ reads' = reads + 1
    /\ UNCHANGED <<file, envVars, mail, outcome, fetched, committed, writes, prev,
                   envChanged, sends, logVars>>
    /\ UNCHANGED auxVars

\* load_state() of a readable file, the clock read and the first candidate.
StartRun ==
    /\ pc = "idle"
    /\ ~LoadRaises(file)
    /\ loaded' = StoredCursor(file)
    /\ last' = <<load_state(file).last_year, load_state(file).last_month>>
    /\ current' = clock
    /\ check' = next_month(load_state(file).last_year, load_state(file).last_month)
    /\ new_periods' = <<>>
    /\ pc' = "scan"
    /\ UNCHANGED <<file, envVars, mail, outcome, fetched, committed, writes, prev,
                   envChanged>>
    /\ reads' = reads + 1
    /\ UNCHANGED <<sends, logVars>>
    /\ UNCHANGED auxVars

\* json.load raises on an empty or cut-off STATE_FILE; nothing catches it.
StartRunLoadRaises ==
    /\ pc = "idle"
    /\ LoadRaises(file)
    /\ pc' = "done"
    /\ outcome' = "load_raised"
    /\ UNCHANGED <<file, envVars, scanVars, mail, committed, writes, prev, envChanged>>
    /\ reads' = reads + 1
    /\ UNCHANGED <<sends, logVars>>
    /\ UNCHANGED auxVars

\* Loop body, data found: record the period, advance last and check.
ScanFound ==
    /\ pc = "scan"
    /\ PeriodLeq(check, current)
    /\ fetch_month(check[1], check[2]) = "dict"
    /\ fetched' = Append(fetched, check)
    /\ new_periods' = Append(new_periods, check)
    /\ last' = check
    /\ check' = next_month(check[1], check[2])
    /\ UNCHANGED <<file, envVars, pc, current, mail, outcome, loaded, committed,
                   writes, prev, envChanged>>
    /\ UNCHANGED <<callVars, logVars>>
    /\ UNCHANGED auxVars

\* Mutant: no break, the scan goes on to the next period.
ScanNoData_Continue ==
    /\ pc = "scan"
    /\ PeriodLeq(check, current)
    /\ fetch_month(check[1], check[2]) = "None"
    /\ fetched' = Append(fetched, check)
    /\ check' = next_month(check[1], check[2])
    /\ UNCHANGED <<file, envVars, pc, last, current, new_periods, mail, outcome,
                   loaded, committed, writes, prev, envChanged>>
    /\ UNCHANGED <<callVars, logVars>>
    /\ UNCHANGED auxVars

\* Loop body, fetch_month returned None: break.
ScanNoData ==
    /\ pc = "scan"
    /\ PeriodLeq(check, current)
    /\ fetch_month(check[1], check[2]) = "None"
    /\ fetched' = Append(fetched, check)
    /\ pc' = "report"
    /\ UNCHANGED <<file, envVars, last, current, check, new_periods, mail, outcome,
                   loaded, committed, writes, prev, envChanged>>
    /\ UNCHANGED <<callVars, logVars>>
    /\ UNCHANGED auxVars

\* Loop condition false: the candidate is after the current period.
ScanPastNow ==
    /\ pc = "scan"
    /\ ~PeriodLeq(check, current)
    /\ pc' = "report"
    /\ UNCHANGED <<file, envVars, scanVars, mail, outcome, committed, writes, prev,
                   envChanged>>
    /\ UNCHANGED <<callVars, logVars>>
    /\ UNCHANGED auxVars

\* Mutant: save_state is called outside the "if new_periods" branch.
ReportNothing_StillSaves ==
    /\ pc = "report"
    /\ new_periods = <<>>
    /\ pc' = "save"
    /\ UNCHANGED <<file, envVars, scanVars, mail, outcome, committed, writes, prev,
                   envChanged, callVars, logVars>>
    /\ UNCHANGED auxVars

\* new_periods is empty: nothing is sent or written, main() returns 0.
ReportNothing ==
    /\ pc = "report"
    /\ new_periods = <<>>
    /\ pc' = "done"
    /\ outcome' = "ret0"
    /\ UNCHANGED <<file, envVars, scanVars, mail, committed, writes, prev, envChanged>>
    /\ UNCHANGED <<callVars, logVars>>
    /\ UNCHANGED auxVars

\* Mutant: the cursor is saved only when the mail went out.
Notify_SaveOnlyIfSent ==
    /\ pc = "report"
    /\ new_periods # <<>>
    /\ \E m \in {"skipped", "failed", "sent"} :
          /\ mail' = m
          /\ pc' = IF m = "sent" THEN "save" ELSE "done"
          /\ outcome' = IF m = "sent" THEN outcome ELSE "ret1"
    /\ UNCHANGED <<file, envVars, scanVars, committed, writes, prev, envChanged>>
    /\ sends' = sends + 1
    /\ reported' = IF allSaved THEN reported \o new_periods ELSE reported
    /\ UNCHANGED <<reads, allSaved, cursor0>>
    /\ UNCHANGED auxVars

\* build_email_html and send_email: skipped without credentials, failed in
\* SMTP, or sent; send_email returns in each case and its result is ignored.
Notify ==
    /\ pc = "report"
    /\ new_periods # <<>>
    /\ mail' \in {"skipped", "failed", "sent"}
    /\ pc' = "save"
    /\ UNCHANGED <<file, envVars, scanVars, outcome, committed, writes, prev,
                   envChanged>>
    /\ sends' = sends + 1
    /\ reported' = IF allSaved THEN reported \o new_periods ELSE reported
    /\ UNCHANGED <<reads, allSaved, cursor0>>
    /\ UNCHANGED auxVars

\* What save_state is called with.
\* Mutant: the candidate that ended the scan.
SaveArgs_Check == check
\* Mutant: the first period found.
SaveArgs_First == new_periods[1]

SaveArgs == last

\* save_state: open(STATE_FILE, "w") truncates the file.
SaveOpen ==
    /\ pc = "save"
    /\ file' = Truncated
    /\ writes' = writes + 1
    /\ pc' = "dump"
    /\ UNCHANGED <<envVars, scanVars, mail, outcome, committed, prev, envChanged>>
    /\ UNCHANGED <<callVars, logVars>>
    /\ UNCHANGED auxVars

\* save_state: open raises (missing directory, no permission); the file is
\* as it was and the exception leaves main().
SaveOpenRaises ==
    /\ pc = "save"
    /\ writes' = writes + 1
    /\ pc' = "done"
    /\ outcome' = "save_raised"
    /\ UNCHANGED <<file, envVars, scanVars, mail, committed, prev, envChanged>>
    /\ allSaved' = FALSE
    /\ reported' = <<>>
    /\ cursor0' = NoPeriod
    /\ UNCHANGED callVars
    /\ UNCHANGED auxVars

\* save_state: json.dump and close complete; main() returns 1.
SaveDump ==
    /\ pc = "dump"
    /\ file' = JsonRecord(SaveArgs[1], SaveArgs[2])
    /\ committed' = StoredCursor(file')
    /\ pc' = "done"
    /\ outcome' = "ret1"
    /\ UNCHANGED <<envVars, scanVars, mail, writes, prev, envChanged>>
    /\ UNCHANGED <<callVars, logVars>>
    /\ UNCHANGED auxVars

\* save_state: the write or the close raises (disk full, I/O error); the file
\* stays empty or holds a prefix of the text.
SaveDumpRaises ==
    /\ pc = "dump"
    /\ file' \in {Truncated, Partial}
    /\ pc' = "done"
    /\ outcome' = "save_raised"
    /\ UNCHANGED <<envVars, scanVars, mail, committed, writes, prev, envChanged>>
    /\ allSaved' = FALSE
    /\ reported' = <<>>
    /\ cursor0' = NoPeriod
    /\ UNCHANGED callVars
    /\ UNCHANGED auxVars

\* The process is killed from outside in the middle of a run.
Kill ==
    /\ pc \in {"scan", "report", "save", "dump"}
    /\ file' \in (IF pc = "dump" THEN {Truncated, Partial} ELSE {file})
    /\ pc' = "done"
    /\ outcome' = "killed"
    /\ UNCHANGED <<envVars, scanVars, mail, committed, writes, prev, envChanged>>
    /\ allSaved' = (allSaved /\ sends = 0)
    /\ reported' = IF allSaved' THEN reported ELSE <<>>
    /\ cursor0' = IF allSaved' THEN cursor0 ELSE NoPeriod
    /\ UNCHANGED callVars
    /\ UNCHANGED auxVars

\* sys.exit(main()): the process is gone; the next run starts afresh.
Exit ==
    /\ pc = "done"
    /\ prev' = [outcome |-> outcome, new_periods |-> new_periods]
    /\ envChanged' = FALSE
    /\ pc' = "idle"
    /\ last' = NoPeriod
    /\ current' = NoPeriod
    /\ check' = NoPeriod
    /\ new_periods' = <<>>
    /\ mail' = "none"
    /\ outcome' = "none"
    /\ loaded' = NoPeriod
    /\ fetched' = <<>>
    /\ writes' = 0
    /\ UNCHANGED <<file, envVars, committed>>
    /\ reads' = 0
    /\ sends' = 0
    /\ UNCHANGED logVars
    /\ UNCHANGED auxVars

Next ==
    \/ Tick
    \/ Publish
    \/ StartRun
    \/ StartRunLoadRaises
    \/ ScanFound
    \/ ScanNoData
    \/ ScanPastNow
    \/ ReportNothing
    \/ Notify
    \/ SaveOpen
    \/ SaveOpenRaises
    \/ SaveDump
    \/ SaveDumpRaises
    \/ Kill
    \/ Exit

Spec == Init /\ [][Next]_allVars

\* main() is not running in the function-level specifications.
MainParked ==
    /\ file = Absent
    /\ source = [p \in Periods |-> "nodata"]
    /\ clock = DefaultCursor
    /\ pc = "off"
    /\ last = NoPeriod
    /\ current = NoPeriod
    /\ check = NoPeriod
    /\ new_periods = <<>>
    /\ mail = "none"
    /\ outcome = "none"
    /\ loaded = NoPeriod
    /\ fetched = <<>>
    /\ committed = NoPeriod
    /\ writes = 0
    /\ prev = NoRun
    /\ envChanged = FALSE
    /\ reads = 0
    /\ sends = 0
    /\ reported = <<>>
    /\ allSaved = TRUE
    /\ cursor0 = NoPeriod

-----------------------------------------------------------------------------
(* next_month on its own: a cursor advanced period by period *)

\* The periods the cursor is drawn from: YearSpan years of 12 months.
YearSpan == 8
Years == DefaultYear..(DefaultYear + YearSpan)
ValidPeriods == {<<y, m>> : y \in Years, m \in 1..12}

MonthInit ==
    /\ MainParked
    /\ FetchParked
    /\ m_prev = NoPeriod
    /\ m_cur \in ValidPeriods

\* last_y, last_m = check_y, check_m after check = next_month(last).
MonthAdvance ==
    /\ m_cur[1] < DefaultYear + YearSpan
    /\ m_prev' = m_cur
    /\ m_cur' = next_month(m_cur[1], m_cur[2])
    /\ UNCHANGED <<vars, fetchVars>>

MonthNext == MonthAdvance

SpecMonth == MonthInit /\ [][MonthNext]_allVars

-----------------------------------------------------------------------------
(* Properties *)

RECURSIVE NthSucc(_, _)
NthSucc(p, k) == IF k = 0 THEN p ELSE Succ(NthSucc(p, k - 1))

HasData(p) == p \in Periods /\ source[p] = "data"

\* The longest run of consecutive periods from p on that all have data and
\* are not after now.
RECURSIVE DataRun(_, _)
DataRun(p, now) ==
    IF HasData(p) /\ Leq(p, now) THEN <<p>> \o DataRun(Succ(p), now) ELSE <<>>

Running == pc \in {"scan", "report", "save", "dump", "done"} /\ loaded # NoPeriod
ScanOver == pc \in {"report", "save", "dump"} \/ (pc = "done" /\ Returned(outcome))
Finished == pc = "done" /\ Returned(outcome)
FileAsLoaded == ~LoadRaises(file) /\ StoredCursor(file) = loaded
LastNew == new_periods[Len(new_periods)]

\* C1: every complete cursor record that replaces the contents of STATE_FILE
\* is at or after the last complete record the file held, and is a period
\* that fetch_month was called with in this run and that the site answered
\* with data.
C1_CursorMonotone ==
    [][(file' # file /\ IsComplete(file')) =>
          /\ Leq(committed, StoredCursor(file'))
          /\ \E i \in 1..Len(fetched) :
                fetched[i] = StoredCursor(file') /\ HasData(fetched[i])]_vars

\* C1 witness: a second run in a row has advanced the stored cursor.
C1_Witness ==
    /\ pc = "done" /\ outcome = "ret1" /\ prev.outcome = "ret1"
    /\ Lt(loaded, StoredCursor(file))
    /\ committed = StoredCursor(file)

\* C2: once the scan of a run is over, new_periods is exactly the longest run
\* of consecutive periods after the loaded cursor that have data and are not
\* after the current period, in ascending order; when main() returns, the
\* stored cursor is the last of them (or untouched when there is none).  With
\* data at c+1 and c+2 and none at c+3 the outcome is [c+1, c+2] and the
\* stored cursor c+2.
C2_ScanOutcome ==
    /\ ScanOver => new_periods = DataRun(Succ(loaded), current)
    /\ Finished =>
          IF new_periods = <<>> THEN FileAsLoaded
          ELSE file = JsonRecord(LastNew[1], LastNew[2])
    /\ (/\ ScanOver
        /\ HasData(NthSucc(loaded, 1)) /\ HasData(NthSucc(loaded, 2))
        /\ ~HasData(NthSucc(loaded, 3))
        /\ Leq(NthSucc(loaded, 3), current))
       => /\ new_periods = <<NthSucc(loaded, 1), NthSucc(loaded, 2)>>
          /\ Finished => StoredCursor(file) = NthSucc(loaded, 2)

\* C2 witness: the cursor was at month 12, the next two periods had data, the
\* third had not, and the run stored the second.
C2_Witness ==
    /\ Finished
    /\ loaded[2] = 12
    /\ Leq(NthSucc(loaded, 3), current)
    /\ NthSucc(loaded, 3) \in Periods /\ ~HasData(NthSucc(loaded, 3))
    /\ new_periods = <<<<loaded[1] + 1, 1>>, <<loaded[1] + 1, 2>>>>
    /\ file = JsonRecord(loaded[1] + 1, 2)

\* C3: STATE_FILE changes only in a run that found a period and after the
\* notification step was attempted, and a complete record written is the
\* last period found; until the run opens the file for writing, the stored
\* cursor is the one it read at its start (also when the run is killed).
C3_NoPartialAdvance ==
    /\ [][file' # file =>
            /\ new_periods # <<>>
            /\ mail # "none"
            /\ IsComplete(file') => StoredCursor(file') = LastNew]_vars
    /\ []((Running /\ writes = 0) => FileAsLoaded)

\* C3 witness: a run that found two periods or more has written the cursor.
C3_Witness ==
    /\ pc = "done" /\ outcome = "ret1"
    /\ Len(new_periods) >= 2
    /\ writes = 1
    /\ StoredCursor(file) = LastNew

\* C4: STATE_FILE never holds an empty or cut-off record.
C4_AtomicReplace == ~LoadRaises(file)

\* C5: in a run that follows a run that returned, with the site's answers and
\* the calendar period unchanged in between, no period is found, nothing is
\* sent, STATE_FILE is not written, and the run returns 0.
C5_Idempotent ==
    [][(Returned(prev.outcome) /\ ~envChanged) =>
          /\ file' = file
          /\ new_periods' = <<>>
          /\ mail' = "none"
          /\ writes' = 0
          /\ pc' = "done" => outcome' \in {"ret0", "killed"}]_vars

\* C5 witness: the first run found periods and stored the cursor, the second
\* run found nothing.
C5_Witness ==
    /\ pc = "done" /\ outcome = "ret0"
    /\ prev.outcome = "ret1" /\ prev.new_periods # <<>>
    /\ ~envChanged
    /\ fetched # <<>>

\* C6: whatever send_email did, the run goes on to save_state; a run that
\* attempted the notification and returned has stored the last period found
\* and returned 1.
C6_NotifyNonFatal ==
    /\ [][(pc = "report" /\ new_periods # <<>> /\ pc' # "report") =>
            (pc' = "save" \/ outcome' = "killed")]_vars
    /\ []((Finished /\ mail # "none") =>
            (outcome = "ret1" /\ file = JsonRecord(last[1], last[2])))
    /\ []((Finished /\ new_periods # <<>>) => mail \in {"skipped", "failed", "sent"})

\* C6 witness: SMTP delivery failed, the cursor was stored, main() returned 1.
C6_Witness ==
    /\ pc = "done" /\ outcome = "ret1"
    /\ mail = "failed"
    /\ file = JsonRecord(LastNew[1], LastNew[2])

\* C7: a run whose save_state failed ends with a status that is neither 0 nor
\* 1, and the next run (site and calendar unchanged) finds and reports the
\* same periods.
C7_SaveFailureHalts ==
    /\ (pc = "done" /\ outcome = "save_raised") => ExitStatus(outcome) \notin {0, 1}
    /\ (pc = "done" /\ outcome # "killed" /\ prev.outcome = "save_raised"
        /\ ~envChanged)
       => (new_periods = prev.new_periods /\ mail # "none")

\* C7, second half alone: the run after a failed save_state finds and reports
\* the same periods.
C7_NextRunReportsAgain ==
    (pc = "done" /\ outcome # "killed" /\ prev.outcome = "save_raised" /\ ~envChanged)
    => (new_periods = prev.new_periods /\ mail # "none")

\* C8: the exit status is 0 exactly when no period was found, and 1 exactly
\* when a period was found, the notification attempted and the cursor stored;
\* status 1 never comes from an error.
C8_ExitStatus ==
    (pc = "done" /\ outcome # "killed") =>
        /\ ExitStatus(outcome) = 0 <=> new_periods = <<>>
        /\ ExitStatus(outcome) = 1 <=>
              (/\ new_periods # <<>>
               /\ mail # "none"
               /\ file = JsonRecord(last[1], last[2]))
        /\ ExitStatus(outcome) = 1 => Returned(outcome)

\* C9: a run whose loaded cursor is at or after the current period fetches
\* nothing, finds nothing, sends nothing and does not write STATE_FILE.
C9_NothingToScan ==
    (Running /\ Leq(current, loaded)) =>
        /\ fetched = <<>>
        /\ new_periods = <<>>
        /\ mail = "none"
        /\ writes = 0
        /\ FileAsLoaded
        /\ pc = "done" => outcome \in {"ret0", "killed"}

\* C9 witness: the cursor equals the current period, the site has data for
\* the next period, and the run returned 0 without a fetch.
C9_Witness ==
    /\ pc = "done" /\ outcome = "ret0"
    /\ loaded = current
    /\ HasData(Succ(loaded))
    /\ fetched = <<>>

\* C10: the periods fetched in a run are the successive periods after the
\* loaded cursor, strictly increasing, each fetched once, none after the
\* current period; every fetch but the last returned data, and after a fetch
\* without data the scan is over.
C10_FetchDiscipline ==
    /\ \A i \in 1..Len(fetched) :
          /\ fetched[i] = NthSucc(loaded, i)
          /\ Leq(fetched[i], current)
          /\ i < Len(fetched) => HasData(fetched[i])
    /\ \A i, j \in 1..Len(fetched) : i < j => Lt(fetched[i], fetched[j])
    /\ (fetched # <<>> /\ ~HasData(fetched[Len(fetched)])) => pc # "scan"

\* C10 witness: the second fetch of a run failed in transport, a later period
\* has data and is not after the current period, and the run fetched no more.
C10_Witness ==
    /\ pc = "done"
    /\ Len(fetched) = 2
    /\ source[fetched[2]] = "error"
    /\ HasData(Succ(fetched[2]))
    /\ Leq(Succ(fetched[2]), current)

\* C11: a run that returns with nothing found has not called send_email and
\* has not opened STATE_FILE for writing; a run that returns with periods
\* found has called send_email exactly once and save_state exactly once;
\* load_state is called exactly once, before anything else in the run.
C11_TerminalAction ==
    /\ (Finished /\ new_periods = <<>>) => (sends = 0 /\ writes = 0 /\ mail = "none")
    /\ (Finished /\ new_periods # <<>>) => (sends = 1 /\ writes = 1)
    /\ (sends > 0 \/ writes > 0) => new_periods # <<>>
    /\ sends <= 1 /\ writes <= 1
    /\ reads = (IF pc = "idle" THEN 0 ELSE 1)
    /\ (fetched # <<>> \/ sends > 0 \/ writes > 0) => reads = 1

\* C11 witness: a run found periods, sent once, wrote once and returned 1.
C11_Witness ==
    /\ Finished /\ outcome = "ret1"
    /\ new_periods # <<>>
    /\ reads = 1 /\ sends = 1 /\ writes = 1
    /\ mail = "sent"

IsConsecutiveFrom(c, seq) == \A i \in 1..Len(seq) : seq[i] = NthSucc(c, i)

\* C18: as long as every run that called send_email went on to store its
\* cursor, the periods handed to send_email, in run order, are the successive
\* periods after the initial cursor: none twice, none skipped; and the stored
\* cursor is the last of them.
C18_ReportedOnce ==
    allSaved =>
        /\ IsConsecutiveFrom(cursor0, reported)
        /\ \A i, j \in 1..Len(reported) : i < j => Lt(reported[i], reported[j])
        /\ (pc \in {"idle", "scan", "report"} /\ ~LoadRaises(file)) =>
              StoredCursor(file) = NthSucc(cursor0, Len(reported))

\* C18 witness: two runs in a row reported periods, the second run more than
\* one.
C18_Witness ==
    /\ allSaved
    /\ pc = "done" /\ outcome = "ret1"
    /\ prev.outcome = "ret1"
    /\ Len(new_periods) >= 2
    /\ Len(reported) > Len(new_periods)

\* The periods after a and not after b.
Between(a, b) == {p \in Periods : Lt(a, p) /\ Leq(p, b)}
\* The candidates the scan still has before it: from check to current.
Remaining == Cardinality({p \in Periods : Leq(check, p) /\ Leq(p, current)})

\* C19: a run in the scan can always take a step, every step that stays in
\* the scan leaves fewer periods between the candidate and the current period
\* (so the scan ends), the current period is read once, every fetched period
\* is after the loaded cursor and not after the current period, and the
\* fetches of a run are no more than the periods between the two.
C19_ScanTerminates ==
    /\ [][(pc = "scan" /\ pc' = "scan") =>
            (Remaining' < Remaining /\ current' = current)]_vars
    /\ [](pc = "scan" => ENABLED (ScanFound \/ ScanNoData \/ ScanPastNow))
    /\ [](Running =>
            /\ loaded[2] \in 1..12
            /\ \A i \in 1..Len(fetched) :
                  Lt(loaded, fetched[i]) /\ Leq(fetched[i], current)
            /\ Len(fetched) <= Cardinality(Between(loaded, current)))

\* C19 witness: a run fetched every period between its cursor and the current
\* period, three of them, and ended.
C19_Witness ==
    /\ pc = "done" /\ Returned(outcome)
    /\ Len(fetched) = 3
    /\ Len(fetched) = Cardinality(Between(loaded, current))

-----------------------------------------------------------------------------
(* Text *)

\* A text is a sequence of pieces: the words of a name, or the characters of
\* a figure.  " " is white space.
Digits == {"0", "1", "2", "3", "4", "5", "6", "7", "8", "9"}
DigitVal(d) ==
    CASE d = "0" -> 0 [] d = "1" -> 1 [] d = "2" -> 2 [] d = "3" -> 3
      [] d = "4" -> 4 [] d = "5" -> 5 [] d = "6" -> 6 [] d = "7" -> 7
      [] d = "8" -> 8 [] d = "9" -> 9

\* str.replace(a, "")
Remove(s, a) == SelectSeq(s, LAMBDA x : x # a)

\* str.strip()
RECURSIVE LStrip(_)
LStrip(s) == IF s # <<>> /\ Head(s) = " " THEN LStrip(Tail(s)) ELSE s
RECURSIVE RStrip(_)
RStrip(s) ==
    IF s # <<>> /\ s[Len(s)] = " " THEN RStrip(SubSeq(s, 1, Len(s) - 1)) ELSE s
Strip(s) == RStrip(LStrip(s))

\* pattern in name
Contains(pat, name) ==
    \E i \in 1..(Len(name) - Len(pat) + 1) : SubSeq(name, i, i + Len(pat) - 1) = pat

AllDigits(s) == \A i \in 1..Len(s) : s[i] \in Digits
RECURSIVE DigitsValue(_)
DigitsValue(s) ==
    IF s = <<>> THEN 0
    ELSE 10 * DigitsValue(SubSeq(s, 1, Len(s) - 1)) + DigitVal(s[Len(s)])

Unsigned(s) == IF s # <<>> /\ s[1] \in {"-", "+"} THEN Tail(s) ELSE s
Sign(s) == IF s # <<>> /\ s[1] = "-" THEN -1 ELSE 1

\* int(s): ok is FALSE where Python raises ValueError.
PyInt(s) ==
    LET u == Unsigned(Strip(s)) IN
    IF u # <<>> /\ AllDigits(u)
    THEN [ok |-> TRUE, value |-> Sign(Strip(s)) * DigitsValue(u)]
    ELSE [ok |-> FALSE, value |-> 0]

\* A float as mant / 10^exp, without trailing zeros in the fraction.
RECURSIVE Normal(_, _)
Normal(mant, exp) ==
    IF exp > 0 /\ mant % 10 = 0 THEN Normal(mant \div 10, exp - 1)
    ELSE [mant |-> mant, exp |-> exp]
Zero == [mant |-> 0, exp |-> 0]

\* float(s): digits with at most one point and at least one digit.
PyFloat(s) ==
    LET u == Unsigned(Strip(s))
        d == Remove(u, ".")
        points == Len(u) - Len(d)
        frac == IF points = 1
                THEN Len(u) - (CHOOSE i \in 1..Len(u) : u[i] = ".")
                ELSE 0
    IN  IF d # <<>> /\ AllDigits(d) /\ points <= 1
        THEN [ok |-> TRUE,
              value |-> LET n == Normal(DigitsValue(d), frac)
                        IN [mant |-> Sign(Strip(s)) * n.mant, exp |-> n.exp]]
        ELSE [ok |-> FALSE, value |-> Zero]

\* Mutant: the ValueError is not caught.
parse_number_NoCatch(s) ==
    LET r == PyInt(Strip(Remove(s, ","))) IN
    [raised |-> ~r.ok, value |-> r.value]

\* parse_number: the value returned; nothing is raised.
parse_number(s) ==
    LET r == PyInt(Strip(Remove(s, ","))) IN
    [raised |-> FALSE, value |-> IF r.ok THEN r.value ELSE 0]

\* parse_pct: the value returned; nothing is raised.
parse_pct(s) ==
    LET r == PyFloat(Strip(Remove(s, "%"))) IN
    [raised |-> FALSE, value |-> IF r.ok THEN r.value ELSE Zero]

-----------------------------------------------------------------------------
(* fetch_month: the loop over parser.rows *)

\* ENTITIES, in the order of the dict.
ENTITIES ==
    << [search_name |-> <<"Klar", "Technologies">>, short_name |-> "Klar"],
       [search_name |-> <<"Libertad", "Servicios", "Financieros">>,
        short_name |-> "Libertad"],
       [search_name |-> <<"Stori", "México">>, short_name |-> "Stori"],
       [search_name |-> <<"Financiera", "Sustentable">>, short_name |-> "Sustentable"],
       [search_name |-> <<"NU", "México", "Financiera">>, short_name |-> "NU México"] >>

\* results[key] = value
Put(d, key, value) ==
    [k \in DOMAIN d \cup {key} |-> IF k = key THEN value ELSE d[k]]

RowFields(row) ==
    <<parse_number(row[2]), parse_number(row[3]), parse_number(row[4]),
      parse_pct(row[5])>>

RowRecord(row) ==
    [cartera_total |-> RowFields(row)[1].value,
     cartera_vigente |-> RowFields(row)[2].value,
     cartera_vencida |-> RowFields(row)[3].value,
     imora |-> RowFields(row)[4].value]

RowRaises(row) ==
    /\ \E i \in 1..Len(ENTITIES) : Contains(ENTITIES[i].search_name, row[1])
    /\ \E j \in 1..4 : RowFields(row)[j].raised

\* Mutant: break after the first matching entity.
\* for search_name, short_name in ENTITIES.items(): from the i-th entity on.
RECURSIVE OverEntities(_, _, _)
OverEntities(res, row, i) ==
    IF i > Len(ENTITIES) THEN res
    ELSE OverEntities(
            IF Contains(ENTITIES[i].search_name, row[1])
            THEN Put(res, ENTITIES[i].short_name, RowRecord(row))
            ELSE res,
            row, i + 1)

\* for row in parser.rows: from the k-th row on.
RECURSIVE OverRows(_, _, _)
OverRows(res, rs, k) ==
    IF k > Len(rs) THEN res
    ELSE OverRows(OverEntities(res, rs[k], 1), rs, k + 1)

-----------------------------------------------------------------------------
(* fetch_month and CONDUSEFParser *)

\* Markup pieces one call of parser.feed handles in the model.
MaxTokens == 13
\* Pieces of text in one cell in the model.
MaxCellLen == 2
\* A row is collected when it has at least this many cells, cut to this many.
RowWidth == 5

\* The texts between the tags.
FeedTexts == {<<"Stori", "México">>, <<"7">>}

notFetch == <<vars, monthVars>>

FetchInit ==
    /\ MainParked
    /\ MonthParked
    /\ f_pc = "request"
    /\ f_ret = "none"
    /\ f_path = "none"
    /\ f_fed = 0
    /\ in_td = FALSE
    /\ current_row = <<>>
    /\ rows = <<>>
    /\ current_cell = <<>>
    /\ has_current_cell = FALSE
    /\ results = EmptyDict
    /\ g_open = FALSE
    /\ g_cells = <<>>

\* requests.get or raise_for_status raises RequestException: return None.
RequestFails ==
    /\ f_pc = "request"
    /\ f_pc' = "returned"
    /\ f_ret' = "None"
    /\ UNCHANGED <<f_fed, parserVars, results, g_open, g_cells, notFetch>>
    /\ f_path' = "request_failed"

\* The request succeeds.
RequestOk ==
    /\ f_pc = "request"
    /\ f_pc' = "marker"
    /\ UNCHANGED <<f_ret, f_fed, parserVars, results, g_open, g_cells, notFetch>>
    /\ UNCHANGED f_path

\* "CARTERA TOTAL" not in resp.text: return None.
NoMarker ==
    /\ f_pc = "marker"
    /\ f_pc' = "returned"
    /\ f_ret' = "None"
    /\ UNCHANGED <<f_fed, parserVars, results, g_open, g_cells, notFetch>>
    /\ f_path' = "no_marker"

\* The marker is there: CONDUSEFParser() and parser.feed(resp.text).
\* __init__ sets in_td, current_row and rows, and not current_cell.
HasMarker ==
    /\ f_pc = "marker"
    /\ f_pc' = "feed"
    /\ in_td' = FALSE
    /\ current_row' = <<>>
    /\ rows' = <<>>
    /\ UNCHANGED <<f_ret, f_fed, current_cell, has_current_cell, results, g_open,
                   g_cells, notFetch>>
    /\ f_path' = "parsed"

Feeding == f_pc = "feed" /\ f_fed < MaxTokens

\* handle_starttag("td")
StartTd ==
    /\ Feeding
    /\ f_fed' = f_fed + 1
    /\ in_td' = TRUE
    /\ current_cell' = <<>>
    /\ has_current_cell' = TRUE
    /\ UNCHANGED <<f_pc, f_ret, current_row, rows, results, g_open, g_cells, notFetch>>
    /\ UNCHANGED f_path

\* handle_starttag("tr")
StartTr ==
    /\ Feeding
    /\ f_fed' = f_fed + 1
    /\ current_row' = <<>>
    /\ g_open' = TRUE
    /\ g_cells' = <<>>
    /\ UNCHANGED <<f_pc, f_ret, in_td, rows, current_cell, has_current_cell, results,
                   notFetch>>
    /\ UNCHANGED f_path

\* handle_endtag("td") when the attribute current_cell exists.
EndTd ==
    /\ Feeding
    /\ has_current_cell
    /\ f_fed' = f_fed + 1
    /\ in_td' = FALSE
    /\ current_row' = Append(current_row, Strip(current_cell))
    /\ g_cells' = Append(g_cells, Strip(current_cell))
    /\ UNCHANGED <<f_pc, f_ret, rows, current_cell, has_current_cell, results, g_open,
                   notFetch>>
    /\ UNCHANGED f_path

\* handle_endtag("td") before any <td>: self.current_cell raises
\* AttributeError, which leaves feed and fetch_month.
EndTdRaises ==
    /\ Feeding
    /\ ~has_current_cell
    /\ f_fed' = f_fed + 1
    /\ in_td' = FALSE
    /\ f_pc' = "raised"
    /\ UNCHANGED <<f_ret, current_row, rows, current_cell, has_current_cell, results,
                   g_open, g_cells, notFetch>>
    /\ UNCHANGED f_path

\* handle_endtag("tr")
EndTr ==
    /\ Feeding
    /\ f_fed' = f_fed + 1
    /\ rows' = IF Len(current_row) >= RowWidth
               THEN Append(rows, SubSeq(current_row, 1, RowWidth))
               ELSE rows
    /\ g_open' = FALSE
    /\ g_cells' = <<>>
    /\ UNCHANGED <<f_pc, f_ret, in_td, current_row, current_cell, has_current_cell,
                   results, notFetch>>
    /\ UNCHANGED f_path

\* handle_data(data)
Data ==
    /\ Feeding
    /\ \E d \in FeedTexts :
          /\ in_td => Len(current_cell) + Len(d) <= MaxCellLen
          /\ current_cell' = IF in_td THEN current_cell \o d ELSE current_cell
    /\ f_fed' = f_fed + 1
    /\ UNCHANGED <<f_pc, f_ret, in_td, current_row, rows, has_current_cell, results,
                   g_open, g_cells, notFetch>>
    /\ UNCHANGED f_path

\* parser.feed returns.
FeedReturns ==
    /\ f_pc = "feed"
    /\ f_pc' = "extract"
    /\ UNCHANGED <<f_ret, f_fed, parserVars, results, g_open, g_cells, notFetch>>
    /\ UNCHANGED f_path

\* The loop over parser.rows and "return results if results else None".
Extract ==
    /\ f_pc = "extract"
    /\ IF \E k \in 1..Len(rows) : RowRaises(rows[k])
       THEN f_pc' = "raised" /\ UNCHANGED <<results, f_ret>>
       ELSE /\ results' = OverRows(EmptyDict, rows, 1)
            /\ f_ret' = IF DOMAIN results' # {} THEN "dict" ELSE "None"
            /\ f_pc' = "returned"
    /\ UNCHANGED <<f_fed, parserVars, g_open, g_cells, notFetch>>
    /\ UNCHANGED f_path

FetchNext ==
    \/ RequestFails
    \/ RequestOk
    \/ NoMarker
    \/ HasMarker
    \/ StartTd
    \/ StartTr
    \/ EndTd
    \/ EndTdRaises
    \/ EndTr
    \/ Data
    \/ FeedReturns
    \/ Extract

SpecFetch == FetchInit /\ [][FetchNext]_allVars

-----------------------------------------------------------------------------
(* The loop over parser.rows on its own: one collected row *)

TestNames ==
    { <<"Stori", "México", "Something">>,
      <<"NU", "México", "Financiera", "Sustentable">>,
      <<"Klar", "Technologies", "Stori", "México">>,
      <<"Banco", "X">> }

\* "1,500", "x", "", " 5 ", "-1", "1.5"
NumTexts ==
    { <<"1", ",", "5", "0", "0">>, <<"x">>, <<>>, <<" ", "5", " ">>, <<"-", "1">>,
      <<"1", ".", "5">> }

\* "4.50%", "x", "", "5", "1.2.3", ".5"
PctTexts ==
    { <<"4", ".", "5", "0", "%">>, <<"x">>, <<>>, <<"5">>,
      <<"1", ".", "2", ".", "3">>, <<".", "5">> }

TestRows ==
    {<<n, a, b, c, d>> : n \in TestNames, a \in NumTexts, b \in NumTexts,
                         c \in NumTexts, d \in PctTexts}

\* parser.feed has returned with one row collected.
ExtractInit ==
    /\ MainParked
    /\ MonthParked
    /\ f_pc = "extract"
    /\ f_ret = "none"
    /\ f_path = "parsed"
    /\ f_fed = 0
    /\ in_td = FALSE
    /\ rows \in {<<r>> : r \in TestRows}
    /\ current_row = rows[1]
    /\ current_cell = rows[1][5]
    /\ has_current_cell = TRUE
    /\ results = EmptyDict
    /\ g_open = FALSE
    /\ g_cells = <<>>

SpecExtract == ExtractInit /\ [][Extract]_allVars

\* C12: fetch_month never raises and returns a non-empty dict or None: None
\* when the request failed, None when the marker is missing, None when no
\* tracked entity was extracted.
C12_FetchTotal ==
    /\ f_pc # "raised"
    /\ f_pc = "returned" =>
          /\ f_ret \in {"dict", "None"}
          /\ f_ret = "dict" <=> DOMAIN results # {}
          /\ f_path \in {"request_failed", "no_marker"} => f_ret = "None"

\* C13: parser.feed handles every piece of every document of <tr>, </tr>,
\* <td>, </td> and text without raising.
C13_ParserTolerant ==
    [][f_pc = "feed" => f_pc' \in {"feed", "extract"}]_allVars

\* C14: every row the parser collects is the first RowWidth cells of the
\* open <tr> row that </tr> closes, and that row has at least RowWidth cells.
C14_RowsAreWholeRows ==
    [][rows' # rows =>
          /\ g_open
          /\ Len(g_cells) >= RowWidth
          /\ rows' = Append(rows, SubSeq(g_cells, 1, RowWidth))]_allVars

\* C14, the carry-over alone: a collected row never holds cells that were
\* closed before the previous <tr> or </tr>.
C14_NoCarryOver ==
    [][rows' # rows => Len(current_row) = Len(g_cells)]_allVars

\* The entities whose pattern the name contains, as indexes into ENTITIES.
Matching(name) == {i \in 1..Len(ENTITIES) : Contains(ENTITIES[i].search_name, name)}
LastMatching(name) == CHOOSE i \in Matching(name) : \A j \in Matching(name) : j <= i

\* C15: a row whose name contains configured patterns yields exactly one
\* record, under the short name of the last matching pattern in configuration
\* order.
C15_LastMatchWins ==
    (f_pc = "returned" /\ Len(rows) = 1 /\ Matching(rows[1][1]) # {}) =>
        DOMAIN results = {ENTITIES[LastMatching(rows[1][1])].short_name}

\* What Python gives for the figures of NumTexts and PctTexts.
ExpectedInt(t) ==
    CASE t = <<"1", ",", "5", "0", "0">> -> 1500
      [] t = <<" ", "5", " ">> -> 5
      [] t = <<"-", "1">> -> -1
      [] OTHER -> 0

ExpectedPct(t) ==
    CASE t = <<"4", ".", "5", "0", "%">> -> [mant |-> 45, exp |-> 1]
      [] t = <<"5">> -> [mant |-> 5, exp |-> 0]
      [] t = <<".", "5">> -> [mant |-> 5, exp |-> 1]
      [] OTHER -> [mant |-> 0, exp |-> 0]

ExpectedRecord(row) ==
    [cartera_total |-> ExpectedInt(row[2]),
     cartera_vigente |-> ExpectedInt(row[3]),
     cartera_vencida |-> ExpectedInt(row[4]),
     imora |-> ExpectedPct(row[5])]

\* C17: the loop never raises; for a row whose name matches tracked
\* entities, each matching entity has a record, a cell that is no integer
\* gives 0 and a percentage cell that is no number gives 0.0, and every other
\* field has its parsed value; a row that matches nothing gives no record.
C17_FieldDefaults ==
    /\ f_pc # "raised"
    /\ (f_pc = "returned" /\ Len(rows) = 1) =>
          /\ DOMAIN results =
                {ENTITIES[i].short_name : i \in Matching(rows[1][1])}
          /\ \A k \in DOMAIN results : results[k] = ExpectedRecord(rows[1])
          /\ f_ret = (IF Matching(rows[1][1]) # {} THEN "dict" ELSE "None")

\* C17 witness: "Stori México Something" with 1,500, a garbage second figure,
\* 5 and a garbage percentage: the record is there, the two bad fields are 0.
C17_Witness ==
    /\ f_pc = "returned"
    /\ rows = << << <<"Stori", "México", "Something">>,
                   <<"1", ",", "5", "0", "0">>, <<"x">>, <<" ", "5", " ">>,
                   <<"x">> >> >>
    /\ DOMAIN results = {"Stori"}
    /\ results["Stori"] = [cartera_total |-> 1500, cartera_vigente |-> 0,
                           cartera_vencida |-> 5, imora |-> Zero]

\* C16: next_month(p) is after p, no period of the calendar lies strictly
\* between the two, its month is in 1..12, and month 12 goes to month 1 of
\* the next year; a cursor advanced any number of times keeps a month in
\* 1..12.
C16_Successor ==
    /\ m_cur # NoPeriod => m_cur[2] \in 1..12
    /\ m_prev # NoPeriod =>
          /\ Lt(m_prev, m_cur)
          /\ \A q \in ValidPeriods : ~(Lt(m_prev, q) /\ Lt(q, m_cur))
          /\ m_prev[2] = 12 => m_cur = <<m_prev[1] + 1, 1>>
          /\ m_prev[2] # 12 => m_cur = <<m_prev[1], m_prev[2] + 1>>

\* C16 witness: the cursor went from month 12 to month 1 of the next year.
C16_Witness ==
    /\ m_prev # NoPeriod
    /\ m_prev[2] = 12
    /\ m_cur = <<m_prev[1] + 1, 1>>

====
